---- MODULE Spec2Model ----
(***************************************************************************)
(* Connection-scoped query execution gateway of the postgresqlperf MCP     *)
(* server (src/postgresqlperf.py): get_db_connection, execute_query, the   *)
(* eight registered tools and the __main__ block.                          *)
(*                                                                         *)
(* The database server, the psycopg driver and the MCP host are the        *)
(* environment.  Every driver call the code makes (conninfo_to_dict,       *)
(* connect, cursor/execute/fetchall, close) either succeeds or raises a    *)
(* driver exception; which one is chosen by the environment.  The host may *)
(* have several tool invocations in flight; the model puts no ordering     *)
(* between the steps of different invocations (the schedule in which each  *)
(* tool body runs to completion is one of its behaviours).                 *)
(***************************************************************************)
EXTENDS Integers, Sequences, FiniteSets, TLC

\* ------------------------------------------------------------------ bounds
\* Number of tool invocations the host dispatches in one run of the server.
MaxInv == 2

\* ------------------------------------------------------- program constants
\* The startup probe of __main__ runs in slot 0; tool invocations in 1..MaxInv.
Probe == 0
\* LIMIT 10 of list_top_running_queries_by_running_time.
TopByTimeLimit == 10
\* LIMIT 30 of list_top_running_queries_by_cpu.
TopByCpuLimit == 30

Invs  == 1..MaxInv
Slots == 0..MaxInv

\* The eight functions registered with @mcp.tool.
Tools ==
  { "get_table_names", "get_table_definition", "get_schemas_names_for_current_db",
    "get_list_of_databases", "get_tables_size", "list_running_queries",
    "list_top_running_queries_by_running_time", "list_top_running_queries_by_cpu" }

\* ------------------------------------------------------------ the database
\* Fixture databases: schemas, tables and whether pg_stat_statements exists.
Schemas     == {"public", "sales"}
SchemaOrder == <<"public", "sales">>
TableOrder  == <<"invoices", "orders", "users">>
TableNames  == {"invoices", "orders", "users"}
\* search_path of a fresh session: only "public" exists among its entries.
SearchPath  == <<"public">>

CatalogA == {<<"public", "orders">>, <<"public", "users">>, <<"sales", "orders">>}
CatalogB == {<<"public", "orders">>, <<"sales", "invoices">>}

\* ext: whether the pg_stat_statements extension is installed.
Databases ==
  { [ext |-> TRUE, catalog |-> CatalogA],
    [ext |-> FALSE, catalog |-> CatalogB] }

\* Arguments the host passes: schema_name / schema / table; "-" for no argument.
SchemaArgs == {"public", "sales"}
TableArgs  == {"orders"}

\* ------------------------------------------------------------------- state
VARIABLES
  proc,        \* position of the __main__ block
  exitStatus,  \* how the process ended ("running" while it has not)
  pg_uri,      \* the module global pg_uri
  db,          \* the database the URI points at (never changed by the program)
  pgss,        \* pg_stat_statements: calls recorded for each statement
  served,      \* number of tool invocations the server has dispatched
  session,     \* the session each slot's connect created
  pc,          \* position of each invocation
  tool, arg,   \* what was invoked
  conn,        \* local variable `connection` of get_db_connection's frame
  exc,         \* exception in flight in the invocation
  result,      \* value the with-body is returning
  outcome,     \* what left the tool boundary
  alone,       \* rows the statement yields with no other session on the server
  faults,      \* what the environment did to the invocation's driver calls
  trace,       \* driver calls and exits of the invocation, in order
  logged       \* lines printed by the except DatabaseError handlers

vars == <<proc, exitStatus, pg_uri, db, pgss, served, session, pc, tool, arg,
          conn, exc, result, outcome, alone, faults, trace, logged>>

NoConn == -1
NoExc  == [type |-> "none", msg |-> <<>>]
NoSession ==
  [state |-> "none", closeCalls |-> 0, stmts |-> 0, users |-> {},
   qstart |-> 0, query |-> <<>>]
NoFaults == [conn |-> "pending", query |-> "pending", close |-> "pending"]
Pending  == [kind |-> "pending", value |-> <<>>]

\* ------------------------------------------------------------ SQL semantics
Stmt(t, a) == <<t, a>>

\* The statements the program can send, in the order pg_stat_statements lists them.
StmtOrder ==
  << <<"get_table_names", "public">>, <<"get_table_names", "sales">>,
     <<"get_table_definition", "orders">>,
     <<"get_schemas_names_for_current_db", "-">>, <<"get_list_of_databases", "-">>,
     <<"get_tables_size", "public">>, <<"get_tables_size", "sales">>,
     <<"list_running_queries", "-">>,
     <<"list_top_running_queries_by_running_time", "-">>,
     <<"list_top_running_queries_by_cpu", "-">>, <<"probe", "-">> >>

ArgsOf(t) ==
  CASE t \in {"get_table_names", "get_tables_size"} -> SchemaArgs
    [] t = "get_table_definition" -> TableArgs
    [] OTHER -> {"-"}

\* Variant of Relations: list_running_queries reads pg_stat_statements as well.
Relations_RunningQueriesFromStatements(t) ==
  CASE t = "get_table_names" -> {"information_schema.tables"}
    [] t = "get_table_definition" -> {"information_schema.columns"}
    [] t = "get_schemas_names_for_current_db" -> {"information_schema.schemata"}
    [] t = "get_list_of_databases" -> {"pg_database"}
    [] t = "get_tables_size" -> {"information_schema.tables"}
    [] t = "list_running_queries" -> {"pg_stat_activity", "pg_stat_statements"}
    [] t = "list_top_running_queries_by_running_time" -> {"pg_stat_statements"}
    [] t = "list_top_running_queries_by_cpu" -> {"pg_stat_statements", "pg_database"}
    [] OTHER -> {}

\* Relations named in the FROM clause of the tool's statement.
Relations(t) ==
  CASE t = "get_table_names" -> {"information_schema.tables"}
    [] t = "get_table_definition" -> {"information_schema.columns"}
    [] t = "get_schemas_names_for_current_db" -> {"information_schema.schemata"}
    [] t = "get_list_of_databases" -> {"pg_database"}
    [] t = "get_tables_size" -> {"information_schema.tables"}
    [] t = "list_running_queries" -> {"pg_stat_activity"}
    [] t = "list_top_running_queries_by_running_time" -> {"pg_stat_statements"}
    [] t = "list_top_running_queries_by_cpu" -> {"pg_stat_statements", "pg_database"}
    [] OTHER -> {}

UsesExtension(t) == "pg_stat_statements" \in Relations(t)

TablesIn(d, s) == SelectSeq(TableOrder, LAMBDA t : <<s, t>> \in d.catalog)

\* A bare table name cast to regclass is looked up along the search_path.
Resolvable(d, t) == \E k \in 1..Len(SearchPath) : <<SearchPath[k], t>> \in d.catalog

Resolve(d, t) ==
  LET k == CHOOSE k \in 1..Len(SearchPath) :
             /\ <<SearchPath[k], t>> \in d.catalog
             /\ \A j \in 1..(k - 1) : <<SearchPath[j], t>> \notin d.catalog
  IN <<SearchPath[k], t>>

\* pg_size_pretty(pg_total_relation_size(..)) of a table of the fixtures.
SizeOf(qt) == IF qt[1] = "public" THEN "16 kB" ELSE "8192 bytes"

\* Every fixture table has the columns (id integer, name text).
Columns == << <<"id", "integer">>, <<"name", "text">> >>

RECURSIVE Flatten(_)
Flatten(ss) == IF ss = <<>> THEN <<>> ELSE Head(ss) \o Flatten(Tail(ss))

Take(s, n) == IF Len(s) <= n THEN s ELSE SubSeq(s, 1, n)

\* Slots in descending order of f.
RECURSIVE OrderDesc(_, _)
OrderDesc(S, f) ==
  IF S = {} THEN <<>>
  ELSE LET m == CHOOSE x \in S : \A y \in S : f[y] <= f[x]
       IN <<m>> \o OrderDesc(S \ {m}, f)

\* Stable sort of pg_stat_statements entries by calls, descending.
RECURSIVE ByCallsDesc(_)
ByCallsDesc(es) ==
  IF es = <<>> THEN <<>>
  ELSE LET k == CHOOSE k \in 1..Len(es) :
                  /\ \A j \in 1..Len(es) : es[j].calls <= es[k].calls
                  /\ \A j \in 1..(k - 1) : es[j].calls < es[k].calls
       IN <<es[k]>> \o ByCallsDesc(SubSeq(es, 1, k - 1) \o SubSeq(es, k + 1, Len(es)))

\* The recorded statements, by descending total time (one time unit per call).
StatRows(stats) ==
  ByCallsDesc(SelectSeq([k \in 1..Len(StmtOrder) |->
                           [stmt |-> StmtOrder[k], calls |-> stats[k]]],
                        LAMBDA e : e.calls > 0))

\* The error the server reports for the statement, "none" when it runs.
SqlError(t, a, d) ==
  CASE "pg_stat_statements" \in Relations(t) /\ ~d.ext -> "undefined_table"
    [] t = "get_tables_size"
         /\ \E k \in 1..Len(TablesIn(d, a)) : ~Resolvable(d, TablesIn(d, a)[k])
       -> "undefined_table"
    [] OTHER -> "none"

\* query_start of a statement begun now on session c: later than that of every
\* other session the server still has.
Now(sess, c) ==
  LET others == {sess[s].qstart : s \in {x \in Slots : x # c /\ sess[x].state = "open"}}
  IN 1 + (CHOOSE m \in others \cup {0} : \A o \in others : o <= m)

\* Rows of pg_stat_activity WHERE query_start IS NOT NULL ORDER BY query_start DESC,
\* restricted to the sessions in `visible`.
ActivityRows(c, sess, visible) ==
  LET live  == {s \in visible : sess[s].state = "open" /\ sess[s].stmts > 0}
      order == OrderDesc(live, [s \in Slots |-> sess[s].qstart])
  IN [k \in 1..Len(order) |->
        <<order[k], sess[order[k]].query,
          IF order[k] = c THEN "active" ELSE "idle", sess[order[k]].qstart>>]

\* The rows the statement returns when it runs on session c.
SqlRows(t, a, d, c, sess, stats, visible) ==
  CASE t = "get_table_names" ->
         [k \in 1..Len(TablesIn(d, a)) |-> <<TablesIn(d, a)[k]>>]
    [] t = "get_table_definition" ->
         Flatten([k \in 1..Len(SchemaOrder) |->
                    IF <<SchemaOrder[k], a>> \in d.catalog THEN Columns ELSE <<>>])
    [] t = "get_schemas_names_for_current_db" ->
         [k \in 1..Len(SchemaOrder) |-> <<SchemaOrder[k]>>]
    [] t = "get_list_of_databases" -> << <<"postgres">> >>
    [] t = "get_tables_size" ->
         [k \in 1..Len(TablesIn(d, a)) |->
            <<TablesIn(d, a)[k], SizeOf(Resolve(d, TablesIn(d, a)[k]))>>]
    [] t = "list_running_queries" -> ActivityRows(c, sess, visible)
    [] t = "list_top_running_queries_by_running_time" ->
         Take([k \in 1..Len(StatRows(stats)) |->
                 <<StatRows(stats)[k].stmt, StatRows(stats)[k].calls,
                   StatRows(stats)[k].calls>>], TopByTimeLimit)
    [] t = "list_top_running_queries_by_cpu" ->
         Take([k \in 1..Len(StatRows(stats)) |->
                 <<"postgres", StatRows(stats)[k].calls,
                   StatRows(stats)[k].calls, StatRows(stats)[k].stmt>>],
              TopByCpuLimit)
    [] OTHER -> << <<"db is up">> >>

\* pg_stat_statements after one more completed execution of stmt.
Record(stats, stmt) ==
  [k \in 1..Len(StmtOrder) |-> IF StmtOrder[k] = stmt THEN stats[k] + 1 ELSE stats[k]]

\* What the with-body does with the fetched rows before returning.
PostProcess(t, rows) ==
  IF t \in {"get_table_names", "get_schemas_names_for_current_db",
            "get_list_of_databases"}
  THEN [k \in 1..Len(rows) |-> rows[k][1]]
  ELSE rows

\* ------------------------------------------------------------- the gateway
\* Outcomes of conninfo_to_dict(pg_uri) followed by psycopg.connect(..).
ConnectOutcomes(uri) ==
  IF uri = "malformed" THEN {"conninfo_error"} ELSE {"ok", "connect_error"}

\* What the server or the network does to cur.execute / cur.fetchall besides the
\* statement's own error: nothing, or a failure (permission denied, cancelled
\* statement, connection dropped).
QueryFaults == {"none", "server_error"}

\* Outcomes of connection.close().
CloseOutcomes == {"ok", "close_error"}

DriverError(cause) == [type |-> "DriverError", msg |-> <<cause>>]

\* Variant of LocalConnection: one module-level connection shared by every caller
\* while it is open.
LocalConnection_Shared(i) ==
  LET open == {s \in Slots : session[s].state = "open"}
  IN IF open = {} THEN i ELSE CHOOSE s \in open : \A r \in open : s <= r

\* The session object bound to `connection`: a local of the generator frame.
LocalConnection(i) == i

\* Variant of AfterAcquire: the body runs although the connection attempt failed.
AfterAcquire_AlwaysBody(out) == "body"

\* Where control goes after lines 41-42.
AfterAcquire(out) == IF out = "ok" THEN "body" ELSE "exit"

\* Variant of ExceptClause: the driver's exception is re-raised as it is.
ExceptClause_Passthrough(e) == e

\* except Exception as e: raise DatabaseError(f"Failed to connect to database: {e}")
ExceptClause(e) ==
  IF e.type = "none" THEN e
  ELSE [type |-> "DatabaseError", msg |-> <<"Failed to connect to database">> \o e.msg]

\* execute_query's except Exception: raise DatabaseError(f"Failed to execute query: {e}")
ExecuteQueryRaises(cause) ==
  [type |-> "DatabaseError", msg |-> <<"Failed to execute query", cause>>]

\* Variant of FinallyCloses: close only when the body ended without an exception
\* (close at the end of the try block instead of in finally).
FinallyCloses_OnlyOnSuccess(i) == conn[i] # NoConn /\ exc[i].type = "none"

\* finally: if 'connection' in locals() and connection
FinallyCloses(i) == conn[i] # NoConn

\* except DatabaseError as e  (of every tool and of the __main__ block)
ToolCatches(e) == e.type = "DatabaseError"

\* --------------------------------------------------------------------- Init
Init ==
  /\ proc = "start"
  /\ exitStatus = "running"
  /\ pg_uri = "unset"
  /\ db \in Databases
  /\ pgss = [k \in 1..Len(StmtOrder) |-> 0]
  /\ served = 0
  /\ session = [s \in Slots |-> NoSession]
  /\ pc = [i \in Slots |-> "idle"]
  /\ tool = [i \in Slots |-> "-"]
  /\ arg = [i \in Slots |-> "-"]
  /\ conn = [i \in Slots |-> NoConn]
  /\ exc = [i \in Slots |-> NoExc]
  /\ result = [i \in Slots |-> <<>>]
  /\ outcome = [i \in Slots |-> Pending]
  /\ alone = [i \in Slots |-> <<>>]
  /\ faults = [i \in Slots |-> NoFaults]
  /\ trace = [i \in Slots |-> <<>>]
  /\ logged = [i \in Slots |-> 0]

\* ------------------------------------------------------------------ actions
\* __main__: get_pg_uri_from_args(), print, mcp.run(..) starts serving.
Start(a) ==
  /\ proc = "start"
  /\ IF a = "missing"
     THEN /\ proc' = "exited"
          /\ exitStatus' = "usage_error"
          /\ UNCHANGED pg_uri
     ELSE /\ proc' = "serving"
          /\ pg_uri' = a
          /\ UNCHANGED exitStatus
  /\ UNCHANGED <<db, pgss, served, session, pc, tool, arg, conn, exc,
                 result, outcome, alone, faults, trace, logged>>

\* Leaving the with statement and the tool, with exception e0 in flight: the
\* except clause of get_db_connection, its finally clause (close() when `closes`,
\* with outcome `out`), then the tool's (or __main__'s) except DatabaseError.
\* f0 and tr0 are the invocation's driver outcomes and trace so far.
\* A session counts as closed once close() was called on it; an exception raised
\* by close() replaces the one the except clause raised.
Leave(i, e0, f0, tr0, closes, out) ==
  LET e == IF closes /\ out # "ok" THEN DriverError(out) ELSE ExceptClause(e0)
      returns == e.type = "none" \/ ToolCatches(e)
  IN /\ exc' = [exc EXCEPT ![i] = e]
     /\ session' = IF closes
                    THEN [session EXCEPT ![conn[i]].state = "closed",
                                         ![conn[i]].closeCalls = @ + 1,
                                         ![conn[i]].users = @ \cup {i},
                                         ![conn[i]].qstart = 0,
                                         ![conn[i]].query = <<>>]
                    ELSE session
     /\ faults' = [faults EXCEPT ![i] = IF closes THEN [f0 EXCEPT !.close = out] ELSE f0]
     /\ trace' = [trace EXCEPT ![i] =
           tr0 \o (IF closes THEN <<"close">> ELSE <<>>)
               \o (IF returns THEN <<"return">> ELSE <<"raise">>)]
     /\ outcome' = [outcome EXCEPT ![i] =
           IF e.type = "none" THEN [kind |-> "returned", value |-> result[i]]
           ELSE IF ToolCatches(e) THEN [kind |-> "returned", value |-> <<>>]
           ELSE [kind |-> "raised", value |-> <<>>]]
     /\ logged' = [logged EXCEPT ![i] =
           IF e.type # "none" /\ ToolCatches(e) THEN @ + 1 ELSE @]
     /\ pc' = [pc EXCEPT ![i] = "done"]

\* Entering `with get_db_connection(pg_uri) as conn`: conninfo_to_dict and connect.
\* When they raise, `connection` is unbound: the except clause, the finally clause
\* (which closes nothing) and the caller's handler follow without a driver call.
Enter(i) ==
  \E out \in ConnectOutcomes(pg_uri) :
    IF AfterAcquire(out) = "body"
    THEN /\ pc' = [pc EXCEPT ![i] = "body"]
         /\ faults' = [faults EXCEPT ![i].conn = out]
         /\ trace' = [trace EXCEPT ![i] = <<"connect">>]
         /\ conn' = IF out = "ok" THEN [conn EXCEPT ![i] = LocalConnection(i)] ELSE conn
         /\ session' = IF out = "ok" THEN [session EXCEPT ![i].state = "open"]
                        ELSE session
         /\ exc' = IF out = "ok" THEN exc ELSE [exc EXCEPT ![i] = DriverError(out)]
         /\ UNCHANGED <<outcome, logged>>
    ELSE /\ Leave(i, DriverError(out), [faults[i] EXCEPT !.conn = out], <<"connect">>,
                  FALSE, "ok")
         /\ UNCHANGED conn

\* Position of the statement of tool t with argument a in StmtOrder.
Kind(t, a) == CHOOSE k \in 1..Len(StmtOrder) : StmtOrder[k] = Stmt(t, a)

\* The host dispatches a tool call; the tool enters its with statement.
\* Invocation ids are names only: of the runs that differ by a renaming of the
\* ids the model keeps the one whose ids are in the order of their statements.
\* The order in which the invocations arrive and take their steps is free.
Invoke(i, t, a) ==
  /\ proc = "serving"
  /\ pc[i] = "idle"
  /\ \A j \in Invs : pc[j] # "idle" =>
       /\ j < i => Kind(tool[j], arg[j]) <= Kind(t, a)
       /\ j > i => Kind(tool[j], arg[j]) >= Kind(t, a)
  /\ tool' = [tool EXCEPT ![i] = t]
  /\ arg' = [arg EXCEPT ![i] = a]
  /\ served' = served + 1
  /\ Enter(i)
  /\ UNCHANGED <<proc, exitStatus, pg_uri, db, pgss, result, alone>>

\* The with-body: execute_query(conn, sql) and the return expression.
Execute(i) ==
  /\ pc[i] = "body"
  /\ \E fault \in QueryFaults :
     LET c      == conn[i]
         usable == c # NoConn /\ session[c].state = "open"
         stmt   == Stmt(tool[i], arg[i])
         sess   == IF c = NoConn THEN session
                   ELSE IF usable
                   THEN [session EXCEPT ![c].stmts = @ + 1, ![c].users = @ \cup {i},
                                        ![c].qstart = Now(session, c),
                                        ![c].query = stmt]
                   ELSE [session EXCEPT ![c].users = @ \cup {i}]
         cause  == IF ~usable THEN "connection_closed"
                   ELSE IF fault # "none" THEN fault
                   ELSE SqlError(tool[i], arg[i], db)
         ok     == cause = "none"
     IN /\ session' = sess
        /\ pgss' = IF ok /\ db.ext THEN Record(pgss, stmt) ELSE pgss
        /\ exc' = [exc EXCEPT ![i] = IF ok THEN NoExc ELSE ExecuteQueryRaises(cause)]
        /\ result' = [result EXCEPT ![i] =
              IF ok THEN PostProcess(tool[i],
                           SqlRows(tool[i], arg[i], db, c, sess, pgss, Slots))
              ELSE <<>>]
        /\ alone' = [alone EXCEPT ![i] =
              IF ok THEN PostProcess(tool[i],
                           SqlRows(tool[i], arg[i], db, c, sess, pgss, {c}))
              ELSE <<>>]
        /\ faults' = [faults EXCEPT ![i].query = cause]
  /\ trace' = [trace EXCEPT ![i] = Append(@, "execute")]
  /\ pc' = [pc EXCEPT ![i] = "exit"]
  /\ UNCHANGED <<proc, exitStatus, pg_uri, db, served, tool, arg, conn, outcome,
                 logged>>

\* The with-body is left: connection.close() and the way out of the tool.
Exit(i) ==
  /\ pc[i] = "exit"
  /\ IF FinallyCloses(i)
     THEN \E out \in CloseOutcomes : Leave(i, exc[i], faults[i], trace[i], TRUE, out)
     ELSE Leave(i, exc[i], faults[i], trace[i], FALSE, "ok")
  /\ UNCHANGED <<proc, exitStatus, pg_uri, db, pgss, served, tool, arg, conn, result,
                 alone>>

\* mcp.run(..) returns: the server was stopped, no invocation is in flight, and
\* the frames of the served invocations and the sessions they closed are gone.
Shutdown ==
  /\ proc = "serving"
  /\ \A i \in Invs : pc[i] \in {"idle", "done"}
  /\ proc' = "stopped"
  /\ pc' = [i \in Slots |-> "idle"]
  /\ tool' = [i \in Slots |-> "-"]
  /\ arg' = [i \in Slots |-> "-"]
  /\ conn' = [i \in Slots |-> NoConn]
  /\ exc' = [i \in Slots |-> NoExc]
  /\ result' = [i \in Slots |-> <<>>]
  /\ outcome' = [i \in Slots |-> Pending]
  /\ alone' = [i \in Slots |-> <<>>]
  /\ faults' = [i \in Slots |-> NoFaults]
  /\ trace' = [i \in Slots |-> <<>>]
  /\ logged' = [i \in Slots |-> 0]
  /\ session' = [s \in Slots |-> IF session[s].state = "open" THEN session[s]
                                  ELSE NoSession]
  /\ UNCHANGED <<exitStatus, pg_uri, db, pgss, served>>

\* The "## test" block of __main__ enters its with statement.
StartProbe ==
  /\ proc = "stopped"
  /\ proc' = "probe"
  /\ tool' = [tool EXCEPT ![Probe] = "probe"]
  /\ Enter(Probe)
  /\ UNCHANGED <<exitStatus, pg_uri, db, pgss, served, arg, result, alone>>

\* End of the __main__ block.
ProcessExit ==
  /\ proc = "probe"
  /\ pc[Probe] = "done"
  /\ proc' = "exited"
  /\ exitStatus' = IF outcome[Probe].kind = "raised" THEN "traceback" ELSE "ok"
  /\ UNCHANGED <<pg_uri, db, pgss, served, session, pc, tool, arg, conn,
                 exc, result, outcome, alone, faults, trace, logged>>

Next ==
  \/ \E a \in {"good", "malformed", "missing"} : Start(a)
  \/ \E i \in Invs, t \in Tools : \E a \in ArgsOf(t) : Invoke(i, t, a)
  \/ \E i \in Slots : Execute(i)
  \/ \E i \in Slots : Exit(i)
  \/ Shutdown
  \/ StartProbe
  \/ ProcessExit

Spec == Init /\ [][Next]_vars

\* ------------------------------------------------------------------ claims
ConnFailed(i)  == faults[i].conn \in {"conninfo_error", "connect_error"}
QueryFailed(i) == faults[i].query \notin {"pending", "none"}
CloseFailed(i) == faults[i].close = "close_error"
Returned(i, v) == outcome[i] = [kind |-> "returned", value |-> v]

OpenSessions == {s \in Slots : session[s].state = "open"}
InFlight     == {i \in Slots : pc[i] \in {"body", "exit"}}

\* Tools whose statement reads only catalog relations.
CatalogTools ==
  {t \in Tools : Relations(t) \cap {"pg_stat_activity", "pg_stat_statements"} = {}}

\* C1: every session get_db_connection opened is closed exactly once, whatever the
\* outcome of the invocation (rows, zero rows, failed statement, failed connection
\* attempt), and before the tool returns; when no invocation is in flight no
\* session is open.
C1_SessionsClosedOnce ==
  /\ \A s \in Slots : session[s].closeCalls <= 1
  /\ \A i \in Slots : pc[i] = "done" =>
       /\ faults[i].conn = "ok" =>
            /\ session[i].state = "closed"
            /\ session[i].closeCalls = 1
            /\ trace[i][Len(trace[i]) - 1] = "close"
       /\ ConnFailed(i) => session[i].state = "none"
  /\ (\A i \in Slots : pc[i] \in {"idle", "done"}) => OpenSessions = {}

\* A tool whose statement raised has finished, and its session was closed once.
C1_Witness ==
  \E i \in Invs :
    /\ pc[i] = "done" /\ QueryFailed(i)
    /\ session[i].state = "closed" /\ session[i].closeCalls = 1

\* C2: whenever the statement or the connection attempt of a tool invocation
\* fails, the tool returns an empty sequence and raises nothing.
C2_FailuresReturnEmpty ==
  \A i \in Invs :
    pc[i] = "done" /\ (ConnFailed(i) \/ QueryFailed(i)) => Returned(i, <<>>)

\* C3: a failure of the acquisition (malformed descriptor, failed connect) leaves
\* get_db_connection as a DatabaseError and as nothing else, and no session is
\* left open or was ever bound.
C3_AcquireFailureIsDatabaseError ==
  \A i \in Slots :
    pc[i] = "done" /\ ConnFailed(i) =>
      /\ exc[i].type = "DatabaseError"
      /\ exc[i].msg = <<"Failed to connect to database", faults[i].conn>>
      /\ session[i].state = "none"
      /\ conn[i] = NoConn

\* A tool invocation ran into a malformed connection descriptor.
C3_Witness ==
  \E i \in Invs : pc[i] = "done" /\ faults[i].conn = "conninfo_error"

\* C4: a failure of close() is not propagated: the invocation ends as it would
\* have ended had close() succeeded.
C4_CloseFailureNotPropagated ==
  \A i \in Slots :
    pc[i] = "done" /\ CloseFailed(i) =>
      Returned(i, IF QueryFailed(i) THEN <<>> ELSE result[i])

\* C5: the connection probe of __main__ runs before tools are served and a
\* connection failure it detects ends the process with a failure; a connection
\* failure of a tool invocation leaves the server running.
C5_StartupProbeIsFatal ==
  /\ served > 0 => pc[Probe] = "done" /\ faults[Probe].conn = "ok"
  /\ proc = "exited" /\ pc[Probe] = "done" /\ ConnFailed(Probe) => exitStatus # "ok"
  /\ \A i \in Invs : pc[i] = "done" /\ ConnFailed(i) => exitStatus = "running"

\* The three tools of lines 157-212.
StatisticsTools ==
  { "list_running_queries", "list_top_running_queries_by_running_time",
    "list_top_running_queries_by_cpu" }

\* C6 as stated: without pg_stat_statements each of the three statistics tools
\* fails inside the gateway and returns an empty sequence (stated for the
\* invocations whose connect and close succeed).
C6_ThreeToolsNeedExtension ==
  \A i \in Invs :
    /\ pc[i] = "done" /\ ~db.ext /\ tool[i] \in StatisticsTools
    /\ faults[i].conn = "ok" /\ faults[i].close = "ok"
    => QueryFailed(i) /\ Returned(i, <<>>)

\* C6 amended: exactly two tools read pg_stat_statements.  Without the extension
\* the server still serves, the statement of each of the two fails in
\* execute_query with a DatabaseError and the tool returns no rows; the statements
\* of the other six tools run as they do with the extension installed.
C6_TwoToolsNeedExtension ==
  /\ {t \in Tools : UsesExtension(t)} =
       { "list_top_running_queries_by_running_time",
         "list_top_running_queries_by_cpu" }
  /\ \A i \in Invs :
       ~db.ext /\ faults[i].query # "pending" =>
         IF UsesExtension(tool[i])
         THEN /\ faults[i].query \in {"undefined_table", "server_error"}
              /\ pc[i] = "exit" => exc[i] = ExecuteQueryRaises(faults[i].query)
              /\ outcome[i].value = <<>>
         ELSE /\ faults[i].query \in
                   {"server_error", SqlError(tool[i], arg[i], [db EXCEPT !.ext = TRUE])}
              /\ faults[i].query = "none" /\ tool[i] \in CatalogTools =>
                   result[i] = PostProcess(tool[i],
                                 SqlRows(tool[i], arg[i], [db EXCEPT !.ext = TRUE],
                                         i, session, pgss, {i}))

\* Without the extension one tool that needs it returned the empty sequence and
\* list_running_queries returned rows.
C6_Witness ==
  \E i, j \in Invs :
    /\ ~db.ext
    /\ pc[i] = "done" /\ UsesExtension(tool[i]) /\ Returned(i, <<>>) /\ logged[i] = 1
    /\ pc[j] = "done" /\ tool[j] = "list_running_queries"
    /\ outcome[j].kind = "returned" /\ outcome[j].value # <<>>

\* C7: against the same database, get_tables_size(schema) returns as many rows as
\* get_table_names(schema), when the driver calls of both succeed.
C7_SizeRowsMatchTableNames ==
  \A i, j \in Invs :
    /\ pc[i] = "done" /\ pc[j] = "done"
    /\ tool[i] = "get_table_names" /\ tool[j] = "get_tables_size"
    /\ arg[i] = arg[j]
    /\ faults[i].conn = "ok" /\ faults[j].conn = "ok"
    /\ faults[i].close = "ok" /\ faults[j].close = "ok"
    /\ faults[i].query # "server_error" /\ faults[j].query # "server_error"
    => /\ outcome[i].kind = "returned" /\ outcome[j].kind = "returned"
       /\ Len(outcome[i].value) = Len(outcome[j].value)

\* No session is used or closed by an invocation other than its creator, and open
\* sessions never outnumber the invocations in flight.
SessionsAreOwned ==
  /\ \A i \in Slots : conn[i] \in {NoConn, i}
  /\ \A s \in Slots : session[s].users \subseteq {s}
  /\ Cardinality(OpenSessions) <= Cardinality(InFlight)

\* What an invocation yields when it is the only one: a function of the tool, its
\* argument, the database and the outcomes of its own driver calls.
RunAlone(i) ==
  IF faults[i].conn = "ok" /\ CloseFailed(i) THEN [kind |-> "raised", value |-> <<>>]
  ELSE IF \/ ConnFailed(i)
          \/ faults[i].query = "server_error"
          \/ SqlError(tool[i], arg[i], db) # "none"
  THEN [kind |-> "returned", value |-> <<>>]
  ELSE [kind |-> "returned",
        value |-> PostProcess(tool[i],
                    SqlRows(tool[i], arg[i], db, i,
                            [s \in Slots |-> IF s = i
                                             THEN [NoSession EXCEPT !.state = "open",
                                                                    !.stmts = 1]
                                             ELSE NoSession],
                            pgss, {i}))]

\* C8 as stated: sessions are owned, and every invocation returns the rows its
\* statement yields with no other invocation's session on the server.
C8_ResultsIndependentOfInterleaving ==
  /\ SessionsAreOwned
  /\ \A i \in Invs :
       pc[i] = "done" /\ outcome[i].kind = "returned" /\ faults[i].query = "none"
         => outcome[i].value = alone[i]

\* C8 amended: sessions are owned, and every invocation of a tool that reads only
\* catalog relations ends, under every interleaving, as it ends when it runs alone.
C8_CatalogResultsIndependent ==
  /\ SessionsAreOwned
  /\ \A i \in Invs :
       pc[i] = "done" /\ tool[i] \in CatalogTools => outcome[i] = RunAlone(i)

\* Two invocations are past their statement with both sessions still open, one of
\* them of a catalog tool.
C8_Witness ==
  \E i, j \in Invs :
    /\ i # j /\ pc[i] = "exit" /\ pc[j] = "exit"
    /\ {i, j} \subseteq OpenSessions
    /\ session[i].stmts = 1 /\ session[j].stmts = 1
    /\ tool[i] \in CatalogTools /\ result[i] # <<>>

\* The driver calls and exits an invocation may have made, in order.
AllowedTraces ==
  { <<"connect", "return">>,
    <<"connect", "execute", "close", "return">>,
    <<"connect", "execute", "close", "raise">> }

IsPrefix(p, t) == Len(p) <= Len(t) /\ SubSeq(t, 1, Len(p)) = p

Count(t, e) == Cardinality({k \in 1..Len(t) : t[k] = e})

\* C9: an invocation makes one connection attempt and executes at most one
\* statement, in the order acquire, execute, release, return; it never retries and
\* never executes on a session that was not opened.
C9_OneAttemptOneStatement ==
  \A i \in Slots :
    /\ \E t \in AllowedTraces : IsPrefix(trace[i], t)
    /\ pc[i] = "done" => trace[i] \in AllowedTraces
    /\ Count(trace[i], "connect") <= 1 /\ Count(trace[i], "execute") <= 1
    /\ session[i].stmts <= 1
    /\ Count(trace[i], "execute") = 1 => faults[i].conn = "ok"
    /\ pc[i] = "done" /\ ConnFailed(i) => trace[i] = <<"connect", "return">>

\* A tool whose statement failed has returned after one attempt and one statement.
C9_Witness ==
  \E i \in Invs :
    /\ pc[i] = "done" /\ QueryFailed(i)
    /\ trace[i] = <<"connect", "execute", "close", "return">>

\* C10: an exception raised in the with-body leaves get_db_connection as a
\* DatabaseError carrying the connection-failure message, and the tool turns it
\* into an empty result.
C10_BodyErrorsLeaveAsConnectFailure ==
  \A i \in Slots :
    pc[i] = "done" /\ QueryFailed(i) =>
      /\ exc[i].type = "DatabaseError"
      /\ exc[i].msg[1] = "Failed to connect to database"
      /\ Returned(i, <<>>)

====
